---- MODULE Spec2Model ----
(***************************************************************************)
(* AI Adoption Risk Advisor (src/index.tsx): the component state           *)
(* (gens, inds, shock), the memoised derivation pipeline and the slider    *)
(* handlers.                                                               *)
(*                                                                         *)
(* Number representation.  TLC has integers only, so every real of the     *)
(* program is a scaled integer or an exact rational:                       *)
(*   t0, years        integer years                                        *)
(*   k                tenths            (k = 12 is 1.2; slider step 0.1)   *)
(*   shock            hundredths        (slider step 0.01)                 *)
(*   w                a fraction [num, den]: twentieths as given (the     *)
(*                    model's weights are multiples of 0.05), over the    *)
(*                    total once normalized                               *)
(*   logistic value   units of 10^-8, truncated                            *)
(*   adoption, velocity, delta   thousandths (the code's toFixed(3))       *)
(*   HHI              ten-thousandths   (the code's toFixed(4))            *)
(*   AUC              hundredths        (the code's toFixed(2))            *)
(* Where the rounding error of the doubles can change a result (a sum that *)
(* lies exactly halfway between two roundings) the computation is carried  *)
(* out on IEEE-754 doubles.                                                *)
(***************************************************************************)
EXTENDS Integers, Sequences, FiniteSets, TLC

VARIABLES gens, inds, shock, memo, nChanges,
          windowSdk, timer, c42sdk, aiAnalysis, isLoading, error, inflight, nRequests

\* The scenario state and its memoised outputs; the state of the AI panel.
paramVars == <<gens, inds, shock, memo, nChanges>>
aiVars == <<windowSdk, timer, c42sdk, aiAnalysis, isLoading, error, inflight, nRequests>>
vars == <<gens, inds, shock, memo, nChanges,
          windowSdk, timer, c42sdk, aiAnalysis, isLoading, error, inflight, nRequests>>

\* ------------------------------------------------------------------ bounds
\* Number of slider changes explored from the initial scenario.
MaxChanges == 2
\* Number of AI analysis requests explored.
MaxRequests == 3

\* ------------------------------------------------------- generic helpers
\* Let1(e, LAMBDA x : body) is body with x bound to the value of e, and so
\* on: e is evaluated once, before body (TLC passes operator arguments
\* unevaluated and may evaluate them at every use).
Let1(a, Op(_)) == CHOOSE r \in {Op(x) : x \in {a}} : TRUE
Let2(a, b, Op(_, _)) == CHOOSE r \in {Op(x, y) : x \in {a}, y \in {b}} : TRUE
Let3(a, b, c, Op(_, _, _)) ==
    CHOOSE r \in {Op(x, y, z) : x \in {a}, y \in {b}, z \in {c}} : TRUE
Let4(a, b, c, d, Op(_, _, _, _)) ==
    CHOOSE r \in {Op(x, y, z, u) : x \in {a}, y \in {b}, z \in {c}, u \in {d}} : TRUE

Abs(x) == IF x < 0 THEN -x ELSE x

Max(a, b) == IF a >= b THEN a ELSE b

Min(a, b) == IF a <= b THEN a ELSE b

\* n / d rounded to the nearest integer, a tie going away from zero (d > 0):
\* Number.prototype.toFixed on the exact value.
RoundDiv(n0, d0) ==
    Let2(n0, d0, LAMBDA n, d :
        Let2(Abs(n) \div d, Abs(n) % d, LAMBDA q, r :
            Let1(IF 2 * r >= d THEN q + 1 ELSE q, LAMBDA u :
                IF n < 0 THEN -u ELSE u)))

Pow10(e) == 10 ^ e

\* +(x).toFixed(digits) for x given in units of 10^-scale; the result is in
\* units of 10^-digits.
toFixed(x, scale, digits) ==
    IF scale >= digits THEN RoundDiv(x, Pow10(scale - digits))
    ELSE x * Pow10(digits - scale)

\* Op over s[lo..hi] from left to right, from acc.  The range is split in
\* halves, the left half done before the right one starts from its result.
RECURSIVE ReduceRange(_, _, _, _, _)
ReduceRange(Op(_, _), s, lo, hi, acc) ==
    IF lo > hi THEN acc
    ELSE IF lo = hi THEN Op(acc, s[lo])
    ELSE Let1(ReduceRange(Op, s, lo, (lo + hi) \div 2, acc), LAMBDA left :
            ReduceRange(Op, s, (lo + hi) \div 2 + 1, hi, left))

\* Array.prototype.reduce: Op over s from left to right, from init.
Reduce(Op(_, _), s0, init) ==
    Let1(s0 \o <<>>, LAMBDA s : ReduceRange(Op, s, 1, Len(s), init))

\* ------------------------------------------------ IEEE-754 double values
\* Natural numbers of any size: little-endian sequences of 14-bit limbs with
\* no leading zero limb (zero is <<>>).  They carry the 53-bit significands
\* of the doubles that JavaScript numbers are.
Limb == 16384
LimbBits == 14

Pow2(k) == 2 ^ k

LimbAt(a, i) == IF i >= 1 /\ i <= Len(a) THEN a[i] ELSE 0

\* a without its leading zero limbs.
BigNorm(a0) ==
    Let1(a0 \o <<>>, LAMBDA a :
        SubSeq(a, 1, CHOOSE n \in 0..Len(a) :
                        /\ n = 0 \/ a[n] # 0
                        /\ \A j \in (n + 1)..Len(a) : a[j] = 0))

\* 0 <= n < 2^31
BigFromInt(n0) ==
    Let1(n0, LAMBDA n :
        BigNorm(<<n % Limb, (n \div Limb) % Limb, n \div (Limb * Limb)>>))

\* a < 2^31
BigToInt(a0) ==
    Let1(a0, LAMBDA a : LimbAt(a, 1) + Limb * LimbAt(a, 2) + Limb * Limb * LimbAt(a, 3))

\* -1, 0 or 1 as a < b, a = b or a > b: decided at the highest limb where
\* they differ.
BigCmp(a0, b0) ==
    Let2(a0, b0, LAMBDA a, b :
        Let1({i \in 1..Max(Len(a), Len(b)) : LimbAt(a, i) # LimbAt(b, i)}, LAMBDA df :
            IF df = {} THEN 0
            ELSE Let1(CHOOSE i \in df : \A j \in df : j <= i, LAMBDA i :
                    IF LimbAt(a, i) > LimbAt(b, i) THEN 1 ELSE -1)))

\* The carry into limb i of a + b: some lower limb overflows and every limb
\* between passes the carry on.
CarryIn(a, b, i) ==
    IF \E j \in 1..(i - 1) :
          /\ LimbAt(a, j) + LimbAt(b, j) >= Limb
          /\ \A k \in (j + 1)..(i - 1) : LimbAt(a, k) + LimbAt(b, k) = Limb - 1
    THEN 1 ELSE 0

BigAdd(a0, b0) ==
    Let2(a0, b0, LAMBDA a, b :
        BigNorm([i \in 1..(Max(Len(a), Len(b)) + 1) |->
                    (LimbAt(a, i) + LimbAt(b, i) + CarryIn(a, b, i)) % Limb]))

\* The borrow from limb i of a - b.
BorrowIn(a, b, i) ==
    IF \E j \in 1..(i - 1) :
          /\ LimbAt(a, j) < LimbAt(b, j)
          /\ \A k \in (j + 1)..(i - 1) : LimbAt(a, k) = LimbAt(b, k)
    THEN 1 ELSE 0

\* a - b for a >= b.
BigSub(a0, b0) ==
    Let2(a0, b0, LAMBDA a, b :
        BigNorm([i \in 1..Len(a) |->
                    (LimbAt(a, i) - LimbAt(b, i) - BorrowIn(a, b, i) + Limb) % Limb]))

\* a * c for 0 <= c < 2^14: the low limbs of the products a[i] * c plus
\* their high limbs one place up.
BigMulSmall(a, c) ==
    BigAdd([i \in 1..Len(a) |-> (a[i] * c) % Limb] \o <<>>,
           <<0>> \o [i \in 1..Len(a) |-> (a[i] * c) \div Limb])

\* a * 2^(14 n)
ShiftLimbs(a0, n) ==
    Let1(a0, LAMBDA a : IF Len(a) = 0 THEN a ELSE [i \in 1..n |-> 0] \o a)

\* Column k of the product a * b for b of at most 4 limbs: the sum of the
\* limb products a[i] * b[j] with i + j = k + 1 (less than 2^30).
MulColumn(a, b, k) ==
    LimbAt(b, 1) * LimbAt(a, k) + LimbAt(b, 2) * LimbAt(a, k - 1)
        + LimbAt(b, 3) * LimbAt(a, k - 2) + LimbAt(b, 4) * LimbAt(a, k - 3)

\* a * b for b of at most 4 limbs: the columns, each split in three limbs.
BigMul(a0, b0) ==
    Let2(a0, b0, LAMBDA a, b :
        Let1([k \in 1..(Len(a) + Len(b)) |-> MulColumn(a, b, k)] \o <<>>, LAMBDA col :
            BigAdd(BigAdd([k \in 1..Len(col) |-> col[k] % Limb] \o <<>>,
                          <<0>> \o [k \in 1..Len(col) |-> (col[k] \div Limb) % Limb]),
                   <<0, 0>> \o [k \in 1..Len(col) |-> col[k] \div (Limb * Limb)])))

\* a * 2^k
BigShl(a, k0) ==
    Let1(k0, LAMBDA k :
        ShiftLimbs(BigMulSmall(a, Pow2(k % LimbBits)), k \div LimbBits))

\* floor(a / 2^k)
BigShr(a0, k0) ==
    Let2(a0, k0, LAMBDA a, k :
        Let2(IF k \div LimbBits >= Len(a) THEN <<>>
             ELSE SubSeq(a, k \div LimbBits + 1, Len(a)), k % LimbBits, LAMBDA hi, s :
            BigNorm([i \in 1..Len(hi) |->
                        hi[i] \div Pow2(s)
                            + (LimbAt(hi, i + 1) % Pow2(s)) * Pow2(LimbBits - s)])))

\* Number of bits of n, 0 <= n < 2^14.
IntBits(n0) ==
    Let1(n0, LAMBDA n :
        CHOOSE k \in 0..LimbBits : Pow2(k) > n /\ (k = 0 \/ Pow2(k - 1) <= n))

\* Number of bits of a (0 for zero).
BigBitLen(a0) ==
    Let1(a0, LAMBDA a :
        IF Len(a) = 0 THEN 0 ELSE (Len(a) - 1) * LimbBits + IntBits(a[Len(a)]))

\* Bit i of a, bit 0 the lowest.
BigBit(a, i0) ==
    Let1(i0, LAMBDA i : (LimbAt(a, i \div LimbBits + 1) \div Pow2(i % LimbBits)) % 2)

\* The largest d < 2^14 with b * d <= r, for r < b * 2^14 and the top limb
\* of b at least 2^13: the quotient of the two top limbs of r by the top
\* limb of b is d, d + 1 or d + 2.
QuotientLimb(r, b) ==
    Let1(Min(Limb - 1,
             (LimbAt(r, Len(b) + 1) * Limb + LimbAt(r, Len(b))) \div b[Len(b)]),
         LAMBDA est :
        CHOOSE d \in {e \in {est - 2, est - 1, est} : e >= 0} :
            /\ BigCmp(BigMulSmall(b, d), r) <= 0
            /\ d = est \/ BigCmp(BigMulSmall(b, d + 1), r) > 0)

\* One step of the long division by b: the next limb of the dividend is
\* appended to the remainder and the next limb of the quotient taken out.
DivStep(b, qr, limb) ==
    Let1(BigNorm(<<limb>> \o qr.r), LAMBDA r2 :
        Let1(QuotientLimb(r2, b), LAMBDA d :
            [q |-> <<d>> \o qr.q, r |-> BigSub(r2, BigMulSmall(b, d))]))

\* Quotient and remainder of a / b (b > 0), by long division in limbs from
\* the top limb of a down, both scaled so that the top limb of b is full.
BigDivMod(a0, b0) ==
    Let1(LimbBits - IntBits(b0[Len(b0)]), LAMBDA s :
        Let2(BigShl(a0, s), BigShl(b0, s), LAMBDA a, b :
            Let1(Reduce(LAMBDA qr, limb : DivStep(b, qr, limb),
                        [i \in 1..Len(a) |-> a[Len(a) + 1 - i]],
                        [q |-> <<>>, r |-> <<>>]), LAMBDA qr :
                [q |-> BigNorm(qr.q), r |-> BigShr(qr.r, s)])))

\* A non-negative finite double: m * 2^e with m of exactly 53 bits, or zero.
DblZero == [m |-> <<>>, e |-> 0]
MantBits == 53

\* The double nearest to n * 2^e (n > 0), ties to the even significand;
\* sticky says that the exact value is a little above n * 2^e.
DblRound(n0, e0, sticky0) ==
    Let3(n0, e0, sticky0, LAMBDA n, e, sticky :
      Let1(BigBitLen(n) - MantBits, LAMBDA sh :
        IF sh <= 0 THEN [m |-> BigShl(n, -sh), e |-> e + sh]
        ELSE Let1(BigShr(n, sh), LAMBDA q :
             Let1(BigCmp(BigSub(n, BigShl(q, sh)), BigShl(<<1>>, sh - 1)), LAMBDA c :
             Let1(IF c > 0 \/ (c = 0 /\ (sticky \/ BigBit(q, 0) = 1))
                  THEN BigAdd(q, <<1>>) ELSE q, LAMBDA q1 :
                IF BigBitLen(q1) > MantBits
                THEN [m |-> BigShr(q1, 1), e |-> e + sh + 1]
                ELSE [m |-> q1, e |-> e + sh])))))

\* a + b
DblAdd(a0, b0) ==
    Let2(a0, b0, LAMBDA a, b :
        IF Len(a.m) = 0 THEN b
        ELSE IF Len(b.m) = 0 THEN a
        ELSE Let1(IF a.e < b.e THEN a.e ELSE b.e, LAMBDA e :
                DblRound(BigAdd(BigShl(a.m, a.e - e), BigShl(b.m, b.e - e)), e, FALSE)))

\* a * b
DblMul(a0, b0) ==
    Let2(a0, b0, LAMBDA a, b :
        IF Len(a.m) = 0 \/ Len(b.m) = 0 THEN DblZero
        ELSE DblRound(BigMul(a.m, b.m), a.e + b.e, FALSE))

\* a / b (b > 0)
DblDiv(a, b) ==
    IF Len(a.m) = 0 THEN DblZero
    ELSE Let1(BigDivMod(BigShl(a.m, MantBits + 2), b.m), LAMBDA d :
            DblRound(d.q, a.e - b.e - (MantBits + 2), Len(d.r) > 0))

\* The double of a decimal literal or slider value n / d (n >= 0, d > 0).
DblOf(n, d) ==
    IF n = 0 THEN DblZero
    ELSE Let2(DblRound(BigFromInt(n), 0, FALSE), DblRound(BigFromInt(d), 0, FALSE),
              LAMBDA a, b : DblDiv(a, b))

\* +x.toFixed(digits) for a double x >= 0, in units of 10^-digits: the
\* integer n with n / 10^digits nearest to x, the larger n on a tie.
DblToFixed(x0, digits) ==
    Let1(x0, LAMBDA x :
        IF Len(x.m) = 0 THEN 0
        ELSE Let1(BigMul(x.m, BigFromInt(Pow10(digits))), LAMBDA n :
            IF x.e >= 0 THEN BigToInt(BigShl(n, x.e))
            ELSE Let1(BigShr(n, -x.e), LAMBDA q :
                 Let1(BigCmp(BigSub(n, BigShl(q, -x.e)), BigShl(<<1>>, -x.e - 1)),
                      LAMBDA c : BigToInt(q) + (IF c >= 0 THEN 1 ELSE 0)))))

\* ------------------------------------------------------------- logistic
\* Units of the unrounded logistic value: 10^-8.
LScale == 8
One == Pow10(LScale)

\* floor(10^8 / (1 + exp(-x/10))) for x = 0..367, the IEEE double the
\* expression of line 55 evaluates to; from x = 368 on the double is 1.
LogisticTable ==
    << 
       50000000, 52497918, 54983399, 57444251, 59868766, 62245933, 64565630, 66818777,
       68997448, 71094950, 73105857, 75026010, 76852478, 78583498, 80218388, 81757447,
       83201838, 84553473, 85814893, 86989152, 88079707, 89090317, 90024951, 90887703,
       91682730, 92414181, 93086157, 93702664, 94267582, 94784643, 95257412, 95689274,
       96083427, 96442881, 96770453, 97068776, 97340300, 97587297, 97811872, 98015969,
       98201379, 98369750, 98522596, 98661308, 98787156, 98901305, 99004819, 99098670,
       99183742, 99260845, 99330714, 99394019, 99451370, 99503319, 99550372, 99592986,
       99631576, 99666519, 99698158, 99726803, 99752737, 99776215, 99797467, 99816706,
       99834119, 99849881, 99864148, 99877060, 99888746, 99899322, 99908894, 99917557,
       99925397, 99932491, 99938912, 99944722, 99949979, 99954737, 99959043, 99962939,
       99966464, 99969655, 99972542, 99975154, 99977518, 99979657, 99981592, 99983344,
       99984928, 99986362, 99987660, 99988834, 99989897, 99990858, 99991728, 99992515,
       99993227, 99993872, 99994455, 99994982, 99995460, 99995892, 99996283, 99996636,
       99996956, 99997246, 99997508, 99997745, 99997960, 99998154, 99998329, 99998488,
       99998632, 99998762, 99998880, 99998987, 99999083, 99999170, 99999249, 99999320,
       99999385, 99999444, 99999496, 99999544, 99999588, 99999627, 99999662, 99999694,
       99999723, 99999750, 99999773, 99999795, 99999814, 99999832, 99999848, 99999862,
       99999875, 99999887, 99999898, 99999908, 99999916, 99999924, 99999931, 99999938,
       99999944, 99999949, 99999954, 99999958, 99999962, 99999966, 99999969, 99999972,
       99999974, 99999977, 99999979, 99999981, 99999983, 99999984, 99999986, 99999987,
       99999988, 99999989, 99999990, 99999991, 99999992, 99999993, 99999993, 99999994,
       99999994, 99999995, 99999995, 99999996, 99999996, 99999996, 99999997, 99999997,
       99999997, 99999997, 99999998, 99999998, 99999998, 99999998, 99999998, 99999998,
       99999998, 99999999, 99999999, 99999999, 99999999, 99999999, 99999999, 99999999,
       99999999, 99999999, 99999999, 99999999, 99999999, 99999999, 99999999, 99999999,
       99999999, 99999999, 99999999, 99999999, 99999999, 99999999, 99999999, 99999999,
       99999999, 99999999, 99999999, 99999999, 99999999, 99999999, 99999999, 99999999,
       99999999, 99999999, 99999999, 99999999, 99999999, 99999999, 99999999, 99999999,
       99999999, 99999999, 99999999, 99999999, 99999999, 99999999, 99999999, 99999999,
       99999999, 99999999, 99999999, 99999999, 99999999, 99999999, 99999999, 99999999,
       99999999, 99999999, 99999999, 99999999, 99999999, 99999999, 99999999, 99999999,
       99999999, 99999999, 99999999, 99999999, 99999999, 99999999, 99999999, 99999999,
       99999999, 99999999, 99999999, 99999999, 99999999, 99999999, 99999999, 99999999,
       99999999, 99999999, 99999999, 99999999, 99999999, 99999999, 99999999, 99999999,
       99999999, 99999999, 99999999, 99999999, 99999999, 99999999, 99999999, 99999999,
       99999999, 99999999, 99999999, 99999999, 99999999, 99999999, 99999999, 99999999,
       99999999, 99999999, 99999999, 99999999, 99999999, 99999999, 99999999, 99999999,
       99999999, 99999999, 99999999, 99999999, 99999999, 99999999, 99999999, 99999999,
       99999999, 99999999, 99999999, 99999999, 99999999, 99999999, 99999999, 99999999,
       99999999, 99999999, 99999999, 99999999, 99999999, 99999999, 99999999, 99999999,
       99999999, 99999999, 99999999, 99999999, 99999999, 99999999, 99999999, 99999999,
       99999999, 99999999, 99999999, 99999999, 99999999, 99999999, 99999999, 99999999,
       99999999, 99999999, 99999999, 99999999, 99999999, 99999999, 99999999, 99999999,
       99999999, 99999999, 99999999, 99999999, 99999999, 99999999, 99999999, 99999999,
       99999999, 99999999, 99999999, 99999999, 99999999, 99999999, 99999999, 99999999,
       99999999, 99999999, 99999999, 99999999, 99999999, 99999999, 99999999, 99999999
    >>

\* logistic(t, t0, k) = 1 / (1 + Math.exp(-k * (t - t0))), k in tenths.
logistic(t, t0, k) ==
    Let1(k * (t - t0), LAMBDA x :
        IF x >= Len(LogisticTable) THEN One
        ELSE IF x >= 0 THEN LogisticTable[x + 1]
        ELSE IF -x >= Len(LogisticTable) THEN 0
        ELSE One - 1 - LogisticTable[-x + 1])

\* ------------------------------------------------- module-level constants
\* years = Array.from({ length: 21 }, (_, i) => 2020 + i)
years == [i \in 1..21 |-> 2019 + i]

\* The JavaScript value null, and a number, as results of one function.
null == [type |-> "null"]
Num(n) == [type |-> "number", val |-> n]

\* The default of the parameter threshold: 0.9.
defaultThreshold == 9 * Pow10(LScale - 1)

\* The loop over years: found is the value returned so far, null while the
\* loop is still running.
ScanYears(params, threshold) ==
    Reduce(LAMBDA found, t :
               IF found # null THEN found
               ELSE IF logistic(t, params.t0, params.k) >= threshold THEN Num(t)
               ELSE null,
           years, null)

\* The scan without the early return: the last qualifying year.
computeTimeToThresholdLast(params0, threshold) ==
    Let1(params0, LAMBDA params :
        Let1({i \in 1..Len(years) :
                 logistic(years[i], params.t0, params.k) >= threshold}, LAMBDA Q :
            IF Q = {} THEN null
            ELSE Num(years[CHOOSE i \in Q : \A j \in Q : j <= i])))

\* for (let t of years) if (logistic(t, t0, k) >= threshold) return t;
\* return null
computeTimeToThreshold(params0, threshold) ==
    Let1(params0, LAMBDA params : ScanYears(params, threshold))

\* for (let i = 1; i < years.length; i++)
\*     auc += ((aPrev + aCurr) / 2) * (years[i] - years[i - 1])
\* with i counting from 2 here.
TrapezoidSum(params) ==
    Reduce(LAMBDA auc, i :
               Let2(logistic(years[i - 1], params.t0, params.k),
                    logistic(years[i], params.t0, params.k), LAMBDA aPrev, aCurr :
                   auc + ((aPrev + aCurr) \div 2) * (years[i] - years[i - 1])),
           [j \in 1..(Len(years) - 1) |-> j + 1], 0)

\* Trapezoidal integration, +auc.toFixed(2).
computeAUC(params0) ==
    Let1(params0, LAMBDA params : toFixed(TrapezoidSum(params), LScale, 2))

\* Weights are counted in twentieths: n is n * 0.05.
WScale == 20
Weight(n) == [num |-> n, den |-> WScale]

\* A Cohorts object: its entries in insertion order, names unique.
initialGens ==
    << [name |-> "Gen Z",       t0 |-> 2023, k |-> 12, w |-> Weight(4), color |-> "#8884d8"],
       [name |-> "Millennials", t0 |-> 2025, k |-> 10, w |-> Weight(7), color |-> "#82ca9d"],
       [name |-> "Gen X",       t0 |-> 2027, k |-> 8,  w |-> Weight(5), color |-> "#ffc658"],
       [name |-> "Boomers",     t0 |-> 2030, k |-> 6,  w |-> Weight(4), color |-> "#ff8042"] >>

initialInds ==
    << [name |-> "Finance",       t0 |-> 2022, k |-> 11, w |-> Weight(6), color |-> "#0088FE"],
       [name |-> "Manufacturing", t0 |-> 2025, k |-> 9,  w |-> Weight(6), color |-> "#00C49F"],
       [name |-> "Healthcare",    t0 |-> 2028, k |-> 7,  w |-> Weight(8), color |-> "#FFBB28"] >>

\* Object.keys(cohorts), as a sequence and as a set; cohorts[name].
Keys(cohorts) == [i \in 1..Len(cohorts) |-> cohorts[i].name]
KeySet(cohorts) == {cohorts[i].name : i \in 1..Len(cohorts)}
Param(cohorts, name) ==
    cohorts[CHOOSE i \in 1..Len(cohorts) : cohorts[i].name = name]

\* ------------------------------------------------------ useMemo pipeline
\* Object.values(cohorts).reduce((sum, p) => sum + p.w, 0)
\* (in twentieths)
TotalWeight(cohorts) ==
    Reduce(LAMBDA sum, p : sum + p.w.num, cohorts, 0)

\* No normalisation: the cohorts as given.
normalizeWeightsNone(cohorts0) == cohorts0

\* const totalWeight = ...; if (totalWeight === 0) return cohorts;
\* normalized[name] = { ...params, w: params.w / totalWeight }
normalizeWeights(cohorts0) ==
    Let1(cohorts0, LAMBDA cohorts :
        Let1(TotalWeight(cohorts), LAMBDA totalWeight :
            IF totalWeight = 0 THEN cohorts
            ELSE [i \in 1..Len(cohorts) |->
                    [cohorts[i] EXCEPT
                        !.w = [num |-> cohorts[i].w.num, den |-> totalWeight]]]))

\* A row rounded to one decimal.
AdoptionRowOneDecimal(cohorts, yr) ==
    [n \in {"year"} \cup KeySet(cohorts) |->
        IF n \in KeySet(cohorts)
        THEN Let1(Param(cohorts, n), LAMBDA p :
                100 * toFixed(logistic(yr, p.t0, p.k), LScale, 1))
        ELSE yr]

\* One row of genData / indData: { year: yr, [name]: +logistic(..).toFixed(3) }
AdoptionRow(cohorts, yr) ==
    [n \in {"year"} \cup KeySet(cohorts) |->
        IF n \in KeySet(cohorts)
        THEN Let1(Param(cohorts, n), LAMBDA p :
                toFixed(logistic(yr, p.t0, p.k), LScale, 3))
        ELSE yr]

genData(g) == [i \in 1..Len(years) |-> AdoptionRow(g, years[i])]

indData(d) == [i \in 1..Len(years) |-> AdoptionRow(d, years[i])]

\* A velocity row labelled with the year its difference starts from.
VelocityRowFromYear(cohorts, data, idx) ==
    [n \in {"year"} \cup KeySet(cohorts) |->
        IF n \in KeySet(cohorts)
        THEN toFixed(data[idx + 2][n] - data[idx + 1][n], 3, 3)
        ELSE years[idx + 1]]

\* One row of genVelData / indVelData, idx counting from 0 as in the code:
\* row is data.slice(1)[idx], the row before it is data[idx].
VelocityRow(cohorts, data, idx) ==
    [n \in {"year"} \cup KeySet(cohorts) |->
        IF n \in KeySet(cohorts)
        THEN toFixed(data[idx + 2][n] - data[idx + 1][n], 3, 3)
        ELSE years[idx + 2]]

genVelData(g, gData) ==
    [j \in 1..(Len(gData) - 1) |-> VelocityRow(g, gData, j - 1)]

indVelData(d, iData) ==
    [j \in 1..(Len(iData) - 1) |-> VelocityRow(d, iData, j - 1)]

\* (p.w * row[name]) ** 2 exactly, in units of 10^-6 / p.w.den^2.
HHITerm(p0, row) ==
    Let2(p0, row[p0.name], LAMBDA p, a : (p.w.num * a) * (p.w.num * a))

\* Object.entries(normalized).reduce((sum, [name, p]) =>
\*     sum + (p.w * row[name]) ** 2, 0), exactly: the fraction num / den in
\* units of 10^-6 (the weights of one set have the same denominator).
HHISum(normalized0, row) ==
    Let1(normalized0, LAMBDA normalized :
        [num |-> Reduce(LAMBDA sum, p : sum + HHITerm(p, row), normalized, 0),
         den |-> IF Len(normalized) = 0 THEN 1
                 ELSE normalized[1].w.den * normalized[1].w.den])

\* normalizeWeights as the code runs it, on the doubles of the weights: the
\* names with the weights p.w / totalWeight (p.w itself when the total is 0).
normalizeWeightsDouble(cohorts) ==
    Let1([i \in 1..Len(cohorts) |-> DblOf(cohorts[i].w.num, cohorts[i].w.den)] \o <<>>,
         LAMBDA ws :
    Let1(Reduce(LAMBDA sum, w : DblAdd(sum, w), ws, DblZero), LAMBDA totalWeight :
        [i \in 1..Len(cohorts) |->
            [name |-> cohorts[i].name,
             w |-> IF Len(totalWeight.m) = 0 THEN ws[i]
                   ELSE DblDiv(ws[i], totalWeight)]] \o <<>>))

\* The same reduce as the code runs it, in doubles: sum + (p.w * row[name]) ** 2
\* from 0 over the normalized weights, the square taken as the correctly
\* rounded product.
HHIDouble(cohorts, row) ==
    Let1(normalizeWeightsDouble(cohorts), LAMBDA normalized :
    Let1([i \in 1..Len(normalized) |-> DblOf(row[normalized[i].name], 1000)] \o <<>>,
         LAMBDA adoption :
    Let1([i \in 1..Len(normalized) |-> DblMul(normalized[i].w, adoption[i])] \o <<>>,
         LAMBDA product :
    Let1([i \in 1..Len(normalized) |-> DblMul(product[i], product[i])] \o <<>>,
         LAMBDA square :
        Reduce(LAMBDA sum, x : DblAdd(sum, x), square, DblZero)))))

\* +(the reduce).toFixed(4).  The exact sum decides the rounding except when
\* it lies exactly halfway between two 4-decimal values: there the rounding
\* error of the double sum decides, and the sum is evaluated in doubles.
HHIRow(cohorts, normalized, row) ==
    Let1(HHISum(normalized, row), LAMBDA total :
        IF 2 * (total.num % (total.den * 100)) = total.den * 100
        THEN DblToFixed(HHIDouble(cohorts, row), 4)
        ELSE RoundDiv(total.num, total.den * 100))

\* The index over the weights as given, not normalized.
HGenRaw(gData, g, normalizedGens) ==
    [i \in 1..Len(gData) |-> HHIRow(g, g, gData[i])]

HGen(gData, g, normalizedGens) ==
    [i \in 1..Len(gData) |-> HHIRow(g, normalizedGens, gData[i])]

HInd(iData, d, normalizedInds) ==
    [i \in 1..Len(iData) |-> HHIRow(d, normalizedInds, iData[i])]

\* The exposure matrix, in tenths.
E == [Finance       |-> [Finance |-> 4, Manufacturing |-> 2, Healthcare |-> 1],
      Manufacturing |-> [Finance |-> 3, Manufacturing |-> 1, Healthcare |-> 2],
      Healthcare    |-> [Finance |-> 2, Manufacturing |-> 3, Healthcare |-> 1]]

\* The matrix read the other way round: E.Finance[sector].
cascadeTransposed(d, s) ==
    [i \in 1..Len(d) |->
        [sector |-> d[i].name, delta |-> toFixed(E.Finance[d[i].name] * s, 3, 3)]]

\* Object.keys(inds).map(sector => ({ sector, delta: +(E[sector].Finance * shock).toFixed(3) }))
cascade(d, s) ==
    [i \in 1..Len(d) |->
        [sector |-> d[i].name, delta |-> toFixed(E[d[i].name].Finance * s, 3, 3)]]

timeToThresholdGen(g) ==
    [n \in KeySet(g) |-> computeTimeToThreshold(Param(g, n), defaultThreshold)]

timeToThresholdInd(d) ==
    [n \in KeySet(d) |-> computeTimeToThreshold(Param(d, n), defaultThreshold)]

aucGen(g) == [n \in KeySet(g) |-> computeAUC(Param(g, n))]

aucInd(d) == [n \in KeySet(d) |-> computeAUC(Param(d, n))]

\* The max-scan with >=: the last of several equal maxima.
PeakOfLast(data, name) ==
    Reduce(LAMBDA max, row :
               Let1(row[name], LAMBDA v :
                    IF v >= max.value THEN [year |-> row["year"], value |-> v] ELSE max),
           data, [year |-> data[1]["year"], value |-> data[1][name]])

\* data.reduce((max, row) => row[name] > max.value ? {year, value} : max,
\*             { year: data[0].year, value: data[0][name] })
PeakOf(data, name) ==
    Reduce(LAMBDA max, row :
               Let1(row[name], LAMBDA v :
                    IF v > max.value THEN [year |-> row["year"], value |-> v] ELSE max),
           data, [year |-> data[1]["year"], value |-> data[1][name]])

findPeak(data, keys) ==
    [n \in {keys[i] : i \in 1..Len(keys)} |->
        IF Len(data) = 0 THEN [year |-> 0, value |-> 0] ELSE PeakOf(data, n)]

\* Math.max(...data)
ArrayMax(data) == CHOOSE m \in {data[i] : i \in 1..Len(data)} :
                      \A i \in 1..Len(data) : data[i] <= m

\* data.lastIndexOf(v), counting from 1.
IndexOfLast(data, v) == CHOOSE i \in 1..Len(data) :
                            data[i] = v /\ \A j \in (i + 1)..Len(data) : data[j] # v

\* data.indexOf(v), counting from 1 (v occurs in data).
IndexOf(data, v) == CHOOSE i \in 1..Len(data) :
                        data[i] = v /\ \A j \in 1..(i - 1) : data[j] # v

findArrayPeak(data0) ==
    Let1(data0, LAMBDA data :
        IF Len(data) = 0 THEN [year |-> 0, value |-> 0]
        ELSE Let1(ArrayMax(data), LAMBDA peakValue :
             Let1(IndexOf(data, peakValue), LAMBDA peakIndex :
                [year |-> years[peakIndex], value |-> peakValue])))

\* The min-scan with <=: the last of several equal minima.
cascadePeakLast(casc0) ==
    Let1(casc0, LAMBDA casc :
        Reduce(LAMBDA worst, row : IF row.delta <= worst.delta THEN row ELSE worst,
               casc,
               IF Len(casc) > 0 THEN casc[1] ELSE [sector |-> "N/A", delta |-> 0]))

\* cascade.reduce((worst, row) => row.delta < worst.delta ? row : worst,
\*                cascade[0] || { sector: 'N/A', delta: 0 })
cascadePeak(casc0) ==
    Let1(casc0, LAMBDA casc :
        Reduce(LAMBDA worst, row : IF row.delta < worst.delta THEN row ELSE worst,
               casc,
               IF Len(casc) > 0 THEN casc[1] ELSE [sector |-> "N/A", delta |-> 0]))

\* null read as the number 0, with no fallback.
OrElseZero(a0, b) ==
    Let1(a0, LAMBDA a : IF a.type = "null" THEN 0 ELSE a.val)

\* a || b for a year-or-null a: null and 0 are falsy.
OrElse(a0, b) ==
    Let1(a0, LAMBDA a : IF a.type = "null" \/ a.val = 0 THEN b ELSE a.val)

\* const t0 = cohorts[name].t0; const peakYear = peakVel[name].year;
\* const thYear = tt[name] || peakYear;
\* { toPeak: peakYear - t0, peakTo90: thYear - peakYear }
Interval(cohorts, peakVel, tt, name) ==
    Let2(Param(cohorts, name).t0, peakVel[name].year, LAMBDA t0, peakYear :
        Let1(OrElse(tt[name], peakYear), LAMBDA thYear :
            [toPeak |-> peakYear - t0, peakTo90 |-> thYear - peakYear]))

intervalsGen(g, gPeakVel, ttGen) ==
    [n \in KeySet(g) |-> Interval(g, gPeakVel, ttGen, n)]

intervalsInd(d, iPeakVel, ttInd) ==
    [n \in KeySet(d) |-> Interval(d, iPeakVel, ttInd, n)]

\* A value with every function in it evaluated (TLC keeps a function
\* constructor unevaluated until it is compared).
Eval(v) == Let1(v, LAMBDA x : IF x = x THEN x ELSE x)

\* The body of useMemo where every sector has its row in E: the whole
\* output bundle from (gens, inds, shock).
Outputs(g, d, s) ==
    Let4(Eval(genData(g)), Eval(indData(d)),
         Eval(normalizeWeights(g)), Eval(normalizeWeights(d)),
         LAMBDA gData, iData, normalizedGens, normalizedInds :
    Let4(Eval(genVelData(g, gData)), Eval(indVelData(d, iData)),
         Eval(HGen(gData, g, normalizedGens)), Eval(HInd(iData, d, normalizedInds)),
         LAMBDA gVel, iVel, hGen, hInd :
    Let4(Eval(cascade(d, s)),
         Eval(timeToThresholdGen(g)), Eval(timeToThresholdInd(d)),
         Eval(<<findPeak(gVel, Keys(g)), findPeak(iVel, Keys(d))>>),
         LAMBDA casc, ttGen, ttInd, peakVel :
        [genData |-> gData, indData |-> iData,
         genVelData |-> gVel, indVelData |-> iVel,
         HGen |-> hGen, HInd |-> hInd, cascade |-> casc,
         timeToThresholdGen |-> ttGen, timeToThresholdInd |-> ttInd,
         aucGen |-> aucGen(g), aucInd |-> aucInd(d),
         genPeakVel |-> peakVel[1], indPeakVel |-> peakVel[2],
         HGenPeak |-> findArrayPeak(hGen), HIndPeak |-> findArrayPeak(hInd),
         cascadePeak |-> cascadePeak(casc),
         intervalsGen |-> intervalsGen(g, peakVel[1], ttGen),
         intervalsInd |-> intervalsInd(d, peakVel[2], ttInd)])))

\* E[sector] is undefined for a sector that has no row in E.
ExposureMissing(d) == \E i \in 1..Len(d) : d[i].name \notin DOMAIN E

\* What the body of useMemo throws on E[sector].Finance when E[sector] is
\* undefined; the render fails with it.
TypeError == [threw |-> "TypeError"]

\* A pipeline that leaves the sectors without a row in E out.
PipelineDropping(g0, d0, s0) ==
    Outputs(g0, SelectSeq(d0, LAMBDA p : p.name \in DOMAIN E), s0)

\* The body of useMemo.
Pipeline(g0, d0, s0) ==
    IF ExposureMissing(d0) THEN TypeError ELSE Outputs(g0, d0, s0)

\* --------------------------------------------------------------- state
\* Slider positions the model explores (subsets of the sliders' ranges:
\* t0 2020..2040 step 1, k 0.1..3 step 0.1, w 0..1 step 0.01, shock
\* -0.5..0.5 step 0.01).
T0Vals == {2040}
KVals == {1}
WVals == {Weight(0)}
ShockVals == {0, 50}
Fields == {"t0", "k", "w"}
FieldVals(field) ==
    CASE field = "t0" -> T0Vals
      [] field = "k" -> KVals
      [] field = "w" -> WVals

\* The memo cell of useMemo before the first render.
NoMemo == [deps |-> <<>>, value |-> <<>>]

\* A dependency array that leaves shock out: [gens, inds].
DepsChangedNoShock(old, new) ==
    old[1] # new[1] \/ old[2] # new[2]

\* Object.is on each of [gens, inds, shock] against the previous render's.
DepsChanged(old, new) ==
    old[1] # new[1] \/ old[2] # new[2] \/ old[3] # new[3]

\* useMemo(factory, [gens, inds, shock]): computed on the first render, kept
\* while no dependency changed, and recomputed otherwise.
useMemo(m, deps) ==
    IF m = NoMemo \/ DepsChanged(m.deps, deps)
    THEN [deps |-> deps, value |-> Pipeline(deps[1], deps[2], deps[3])]
    ELSE m

\* A JavaScript string, as a value that can stand where null can.
Str(s) == [type |-> "string", val |-> s]

\* window.C42_SDK, when the host provides it.
SDK == [type |-> "C42_SDK"]

\* useState(null), useState(''), useState(false), useState(null); the timer
\* of the mount effect is set and no request has been made.  host says
\* whether the page runs inside a host that provides window.C42_SDK.
InitAi(host) ==
    /\ windowSdk = host
    /\ timer = "pending"
    /\ c42sdk = null
    /\ aiAnalysis = ""
    /\ isLoading = FALSE
    /\ error = null
    /\ inflight = <<>>
    /\ nRequests = 0

\* useState initial values and the first render.
InitParams ==
    /\ gens = initialGens
    /\ inds = initialInds
    /\ shock = -10
    /\ memo = useMemo(NoMemo, <<initialGens, initialInds, -10>>)
    /\ nChanges = 0

\* The page opened standalone.
Init == InitParams /\ InitAi(FALSE)

\* The field set in every cohort of the set.
UpdatedAll(prev, cohort, field, val) ==
    [i \in 1..Len(prev) |-> [prev[i] EXCEPT ![field] = val]]

\* { ...prev, [cohort]: { ...prev[cohort], [field]: val } }
Updated(prev, cohort, field, val) ==
    [i \in 1..Len(prev) |->
        IF prev[i].name = cohort
        THEN [prev[i] EXCEPT ![field] = val]
        ELSE prev[i]]

\* handleParamChange(setGens, cohort, field)(e), then the re-render.
handleParamChangeGens(cohort, field, val) ==
    /\ memo # NoMemo
    /\ nChanges < MaxChanges
    /\ gens' = Updated(gens, cohort, field, val)
    /\ memo' = useMemo(memo, <<gens', inds, shock>>)
    /\ nChanges' = nChanges + 1
    /\ UNCHANGED <<inds, shock>>
    /\ UNCHANGED aiVars

\* handleParamChange(setInds, cohort, field)(e), then the re-render.
handleParamChangeInds(cohort, field, val) ==
    /\ memo # NoMemo
    /\ nChanges < MaxChanges
    /\ inds' = Updated(inds, cohort, field, val)
    /\ memo' = useMemo(memo, <<gens, inds', shock>>)
    /\ nChanges' = nChanges + 1
    /\ UNCHANGED <<gens, shock>>
    /\ UNCHANGED aiVars

\* onChange of the shock slider: setShock(parseFloat(e.target.value)), then
\* the re-render.
setShock(val) ==
    /\ memo # NoMemo
    /\ nChanges < MaxChanges
    /\ shock' = val
    /\ memo' = useMemo(memo, <<gens, inds, shock'>>)
    /\ nChanges' = nChanges + 1
    /\ UNCHANGED <<gens, inds>>
    /\ UNCHANGED aiVars

Next ==
    \/ \E cohort \in KeySet(gens), field \in Fields :
         \E val \in FieldVals(field) : handleParamChangeGens(cohort, field, val)
    \/ \E cohort \in KeySet(inds), field \in Fields :
         \E val \in FieldVals(field) : handleParamChangeInds(cohort, field, val)
    \/ \E val \in ShockVals : setShock(val)

Spec == Init /\ [][Next]_vars

\* --------------------------------------------------------- the AI panel
\* The callback of setTimeout(..., 50) of the mount effect: the host's SDK,
\* if there is one, goes into the state c42sdk.
DetectSdk ==
    /\ timer = "pending"
    /\ timer' = "fired"
    /\ c42sdk' = IF windowSdk THEN SDK ELSE c42sdk
    /\ UNCHANGED <<windowSdk, aiAnalysis, isLoading, error, inflight, nRequests>>
    /\ UNCHANGED paramVars

\* A button that is always enabled.
ButtonDisabledNever(loading) == FALSE

\* <button onClick={getAiAnalysis} disabled={isLoading}>
ButtonDisabled(loading) == loading

\* The branch of the try block: if (c42sdk) c42sdk.request(...) else
\* new GoogleGenAI({ apiKey }).models.generateContent(...), on the c42sdk of
\* the render whose getAiAnalysis was clicked.
Backend(sdk) == IF sdk # null THEN "sdk" ELSE "direct"

\* An error state that the start of a request leaves as it is.
ErrorAtStartKept(prev) == prev

\* setError(null)
ErrorAtStart(prev) == null

\* The prompt: a text made of the parameters of every cohort and the shock.
Prompt(g, d, s) == [gens |-> g, inds |-> d, shock |-> s]

\* A click on the button: getAiAnalysis up to its await.  The request is
\* sent and stays in flight with the c42sdk its closure holds.
getAiAnalysis ==
    /\ ~ButtonDisabled(isLoading)
    /\ nRequests < MaxRequests
    /\ isLoading' = TRUE
    /\ error' = ErrorAtStart(error)
    /\ aiAnalysis' = ""
    /\ inflight' = Append(inflight, [backend |-> Backend(c42sdk), c42sdk |-> c42sdk,
                                    prompt |-> Prompt(gens, inds, shock)])
    /\ nRequests' = nRequests + 1
    /\ UNCHANGED <<windowSdk, timer, c42sdk>>
    /\ UNCHANGED paramVars

\* s without its i-th element.
RemoveAt(s, i) == SubSeq(s, 1, i - 1) \o SubSeq(s, i + 1, Len(s))

\* response.text of the answers explored.
ResponseTexts == {"", "### Executive Summary"}

\* A loading flag that settling a request leaves as it is.
LoadingAfterSettleKept(prev) == prev

\* finally { setIsLoading(false) }
LoadingAfterSettle(prev) == FALSE

\* The awaited call of request i resolves: analysisText = response.text;
\* setAiAnalysis(analysisText); finally setIsLoading(false).
RequestResolves(i, text) ==
    /\ i \in 1..Len(inflight)
    /\ aiAnalysis' = text
    /\ isLoading' = LoadingAfterSettle(isLoading)
    /\ inflight' = RemoveAt(inflight, i)
    /\ UNCHANGED <<windowSdk, timer, c42sdk, error, nRequests>>
    /\ UNCHANGED paramVars

\* The message every failure gets, whatever the backend.
errorMessageStandalone(sdk) ==
    "Failed to get analysis. In standalone mode, please ensure your API key is configured correctly."

\* const errorMessage = c42sdk ? '...' : '...', on the c42sdk of the closure.
errorMessage(sdk) ==
    IF sdk # null
    THEN "Kernel failed to generate response. Please check the C42 OS host."
    ELSE "Failed to get analysis. In standalone mode, please ensure your API key is configured correctly."

\* The awaited call of request i rejects: catch { setError(errorMessage) }
\* finally { setIsLoading(false) }.
RequestRejects(i) ==
    /\ i \in 1..Len(inflight)
    /\ error' = Str(errorMessage(inflight[i].c42sdk))
    /\ isLoading' = LoadingAfterSettle(isLoading)
    /\ inflight' = RemoveAt(inflight, i)
    /\ UNCHANGED <<windowSdk, timer, c42sdk, aiAnalysis, nRequests>>
    /\ UNCHANGED paramVars

\* The page opened standalone or inside a host, the AI panel in use while
\* the shock slider moves.
InitPanel == InitParams /\ \E host \in BOOLEAN : InitAi(host)

NextPanel ==
    \/ DetectSdk
    \/ getAiAnalysis
    \/ \E i \in 1..Len(inflight), text \in ResponseTexts : RequestResolves(i, text)
    \/ \E i \in 1..Len(inflight) : RequestRejects(i)
    \/ \E val \in ShockVals : setShock(val)

SpecPanel == InitPanel /\ [][NextPanel]_vars

\* Every request the backend has received is answered or refused in the end.
SpecPanelFair ==
    /\ SpecPanel
    /\ WF_vars(\E i \in 1..Len(inflight) :
                  \/ RequestRejects(i)
                  \/ \E text \in ResponseTexts : RequestResolves(i, text))

\* ------------------------------------------- the pipeline on any inputs
\* The derivations are pure functions of (gens, inds, shock).  SpecInputs
\* mounts the component on cohort sets other than the built-in ones (fewer
\* sectors, none at all, other weights) and renders it once.
SectorSeqs ==
    { <<>>, <<"Finance">>, <<"Healthcare", "Finance">>,
      <<"Finance", "Manufacturing", "Healthcare">>, <<"Finance", "Retail">> }

\* The parameters of a sector: the built-in ones, or those of a sector the
\* program has no exposure row for.
Sector(name) ==
    IF name \in KeySet(initialInds) THEN Param(initialInds, name)
    ELSE [name |-> name, t0 |-> 2026, k |-> 10, w |-> Weight(0), color |-> "#000000"]

\* Weights of up to three sectors, in twentieths.
WeightVecs ==
    { <<0, 0, 0>>, <<2, 3, 3>>, <<6, 9, 9>>, <<6, 6, 8>>, <<20, 20, 20>>, <<0, 5, 0>> }

IndInput(names, ws) ==
    [i \in 1..Len(names) |->
        [Sector(names[i]) EXCEPT !.w = Weight(ws[i])]]

IndInputs == {IndInput(names, ws) : names \in SectorSeqs, ws \in WeightVecs}

GenInputs ==
    { initialGens,
      [i \in 1..Len(initialGens) |-> [initialGens[i] EXCEPT !.w = Weight(0)]],
      [i \in 1..2 |-> [initialGens[i] EXCEPT !.k = 1, !.w = Weight(5 * i)]] }

InitInputs ==
    /\ gens \in GenInputs
    /\ inds \in IndInputs
    /\ shock \in ShockVals \cup {-10}
    /\ memo = NoMemo
    /\ nChanges = 0
    /\ InitAi(FALSE)

\* The first render: useMemo runs the pipeline.
Mount ==
    /\ memo = NoMemo
    /\ memo' = useMemo(memo, <<gens, inds, shock>>)
    /\ UNCHANGED <<gens, inds, shock, nChanges>>
    /\ UNCHANGED aiVars

NextInputs == Mount

SpecInputs == InitInputs /\ [][NextInputs]_vars

\* The bundle the component renders, once mounted (the render done and
\* nothing thrown).
Mounted == memo # NoMemo /\ memo.value # TypeError
out == memo.value

\* ------------------------------------------------------------------ C1
\* C1: after any sequence of parameter changes the output bundle the
\* component renders is the full pipeline applied to the current
\* (gens, inds, shock): no output is stale.
OutputsCurrent == Mounted => out = Pipeline(gens, inds, shock)

OutputsCurrentWitness ==
    /\ nChanges >= 2
    /\ gens # initialGens
    /\ shock # -10
    /\ out = Pipeline(gens, inds, shock)

\* ------------------------------------------------------------------ C2
\* C2: the stored time-to-threshold of every cohort is the earliest horizon
\* year at which the cohort's adoption logistic(year, t0, k) is >= 0.9, and
\* is null exactly when no horizon year qualifies.
TimeToThresholdEarliest ==
    Mounted =>
        LET Holds(cohorts, tt) ==
                \A n \in KeySet(cohorts) :
                    LET p == Param(cohorts, n)
                        Q == {i \in 1..Len(years) :
                                 logistic(years[i], p.t0, p.k) >= defaultThreshold}
                    IN  IF Q = {} THEN tt[n] = null
                        ELSE /\ tt[n] # null
                             /\ \E i \in Q : /\ tt[n].val = years[i]
                                             /\ \A j \in Q : i <= j
        IN  /\ Holds(gens, out.timeToThresholdGen)
            /\ Holds(inds, out.timeToThresholdInd)

TimeToThresholdWitness ==
    /\ Mounted
    /\ nChanges >= 1
    /\ \E n \in KeySet(gens) : out.timeToThresholdGen[n] = null
    /\ \E n \in KeySet(gens) :
          /\ out.timeToThresholdGen[n] # null
          /\ out.timeToThresholdGen[n].val > years[1]
          /\ out.timeToThresholdGen[n].val < years[Len(years)]

\* ------------------------------------------------------------------ C3
\* C3: for every cohort the reported peak velocity is an entry (year, value)
\* of the cohort's velocity series, no entry of the series is larger, and
\* every entry of an earlier year is strictly smaller: the maximum, at the
\* earliest year where it occurs.
PeakVelocityFirstMax ==
    Mounted =>
        LET Holds(cohorts, vel, peak) ==
                \A n \in KeySet(cohorts) :
                    \E i \in 1..Len(vel) :
                        /\ peak[n].year = vel[i]["year"]
                        /\ peak[n].value = vel[i][n]
                        /\ \A j \in 1..Len(vel) : vel[j][n] <= peak[n].value
                        /\ \A j \in 1..(i - 1) : vel[j][n] < peak[n].value
        IN  /\ Holds(gens, out.genVelData, out.genPeakVel)
            /\ Holds(inds, out.indVelData, out.indPeakVel)

PeakVelocityTieWitness ==
    /\ Mounted
    /\ nChanges >= 1
    /\ \E n \in KeySet(gens) :
          \E i \in 1..Len(out.genVelData) :
              \E j \in (i + 1)..Len(out.genVelData) :
                  /\ out.genVelData[i][n] = out.genPeakVel[n].value
                  /\ out.genVelData[j][n] = out.genPeakVel[n].value
                  /\ out.genPeakVel[n].year = out.genVelData[i]["year"]
                  /\ out.genPeakVel[n].value > 0

\* ------------------------------------------------------------------ C4
\* C4: for each cohort set the reported peak concentration is the maximum
\* of the set's HHI series, paired with the horizon year of the first
\* place where the series has that value.
PeakConcentrationFirstMax ==
    Mounted =>
        LET Holds(H, peak) ==
                \E i \in 1..Len(H) :
                    /\ peak.value = H[i]
                    /\ peak.year = years[i]
                    /\ \A j \in 1..Len(H) : H[j] <= peak.value
                    /\ \A j \in 1..(i - 1) : H[j] < peak.value
        IN  /\ Holds(out.HGen, out.HGenPeak)
            /\ Holds(out.HInd, out.HIndPeak)

PeakConcentrationTieWitness ==
    /\ Mounted
    /\ nChanges >= 1
    /\ \E i \in 1..Len(out.HInd) :
          \E j \in (i + 1)..Len(out.HInd) :
              /\ out.HInd[i] = out.HIndPeak.value
              /\ out.HInd[j] = out.HIndPeak.value
              /\ out.HIndPeak.year = years[i]
              /\ out.HIndPeak.value > 0

\* ------------------------------------------------------------------ C5
\* C5: the worst cascade impact is a row of the cascade, no row has a
\* smaller delta, and every row before it has a strictly larger delta (the
\* first row with the minimum); for an empty cascade it is the row
\* {sector: 'N/A', delta: 0}.
WorstCascadeFirstMin ==
    Mounted =>
        LET casc == out.cascade
            worst == out.cascadePeak
        IN  IF Len(casc) = 0
            THEN worst = [sector |-> "N/A", delta |-> 0]
            ELSE \E i \in 1..Len(casc) :
                    /\ worst = casc[i]
                    /\ \A j \in 1..Len(casc) : casc[j].delta >= worst.delta
                    /\ \A j \in 1..(i - 1) : casc[j].delta > worst.delta

WorstCascadeTieWitness ==
    /\ Mounted
    /\ Len(out.cascade) >= 2
    /\ out.cascadePeak = out.cascade[1]
    /\ \E j \in 2..Len(out.cascade) : out.cascade[j].delta = out.cascadePeak.delta

\* ------------------------------------------------------------------ C6
\* C6: for every cohort toPeak is the peak-velocity year minus t0, and
\* peakTo90 is the time-to-threshold year minus the peak-velocity year, or
\* 0 when (and only when) the time-to-threshold is null.
IntervalsFromPeakAndThreshold ==
    Mounted =>
        LET Holds(cohorts, peak, tt, intervals) ==
                \A n \in KeySet(cohorts) :
                    /\ intervals[n].toPeak = peak[n].year - Param(cohorts, n).t0
                    /\ intervals[n].peakTo90 =
                          IF tt[n] = null THEN 0 ELSE tt[n].val - peak[n].year
        IN  /\ Holds(gens, out.genPeakVel, out.timeToThresholdGen, out.intervalsGen)
            /\ Holds(inds, out.indPeakVel, out.timeToThresholdInd, out.intervalsInd)

IntervalsWitness ==
    /\ Mounted
    /\ nChanges >= 1
    /\ \E n \in KeySet(gens) :
          /\ out.timeToThresholdGen[n] = null
          /\ out.intervalsGen[n].peakTo90 = 0
    /\ \E n \in KeySet(gens) :
          /\ out.timeToThresholdGen[n] # null
          /\ out.intervalsGen[n].peakTo90 # 0
    /\ \E n \in KeySet(gens) : out.intervalsGen[n].toPeak # 0

\* ------------------------------------------------------------------ C7
\* C7: normalizeWeights keeps the cohorts, their order, t0, k and color;
\* when the total weight is 0 it returns the weights as given, and
\* otherwise each weight is the given one divided by the total, so that
\* the weights sum to 1 (exactly as fractions; as the doubles the code
\* computes, to within rounding: 1 to nine decimals).
NormalizedWeightsSumToOne ==
    Mounted =>
        LET Holds(cohorts) ==
                LET normalized == normalizeWeights(cohorts)
                    \* the total of the given weights, in twentieths
                    total == Reduce(LAMBDA sum, p : sum + p.w.num, cohorts, 0)
                    doubles == normalizeWeightsDouble(cohorts)
                IN  /\ Len(normalized) = Len(cohorts)
                    /\ \A i \in 1..Len(cohorts) :
                          /\ normalized[i].name = cohorts[i].name
                          /\ normalized[i].t0 = cohorts[i].t0
                          /\ normalized[i].k = cohorts[i].k
                          /\ normalized[i].color = cohorts[i].color
                    /\ IF total = 0
                       THEN \A i \in 1..Len(cohorts) : normalized[i].w = cohorts[i].w
                       ELSE /\ \A i \in 1..Len(cohorts) :
                                  normalized[i].w.num * total * cohorts[i].w.den
                                      = cohorts[i].w.num * WScale * normalized[i].w.den
                            /\ \A i \in 1..Len(cohorts) :
                                  normalized[i].w.den = normalized[1].w.den
                            /\ Reduce(LAMBDA sum, p : sum + p.w.num, normalized, 0)
                                  = normalized[1].w.den
                            /\ DblToFixed(Reduce(LAMBDA sum, p : DblAdd(sum, p.w),
                                                 doubles, DblZero), 9) = Pow10(9)
        IN  Holds(gens) /\ Holds(inds)

NormalizedWeightsWitness ==
    /\ Mounted
    /\ \A i \in 1..Len(gens) : gens[i].w.num = 0
    /\ normalizeWeights(gens) = gens
    /\ Len(inds) = 3
    /\ \A i \in 1..Len(inds) : inds[i].w.num # 0
    /\ normalizeWeights(inds) # inds

\* ------------------------------------------------------------------ C8
\* C8: at every horizon year the concentration index of a cohort set is the
\* sum, over the cohorts of that set, of (normalized weight x the cohort's
\* adoption value of that year) squared, rounded to 4 decimals (either
\* neighbour when the sum lies exactly halfway); the generational index
\* reads the generational set only and the industry index the industry set.
HHIIsWeightedSquareSum ==
    Mounted =>
        LET Holds(cohorts, data, H) ==
                /\ Len(H) = Len(years)
                /\ \A i \in 1..Len(years) :
                      LET row == data[i]
                          normalized == normalizeWeights(cohorts)
                          \* the weights n / den, the adoption values in
                          \* thousandths: the sum is num / (den^2 * 10^6)
                          den == IF Len(cohorts) = 0 THEN 1 ELSE normalized[1].w.den
                          num == Reduce(LAMBDA sum, p :
                                            sum + p.w.num * p.w.num * row[p.name] * row[p.name],
                                        normalized, 0)
                          d == den * den * 100
                          q == num \div d
                          r == num % d
                      IN  IF 2 * r < d THEN H[i] = q
                          ELSE IF 2 * r > d THEN H[i] = q + 1
                          ELSE H[i] \in {q, q + 1}
        IN  /\ Holds(gens, out.genData, out.HGen)
            /\ Holds(inds, out.indData, out.HInd)

HHIWitness ==
    /\ Mounted
    /\ nChanges >= 1
    /\ normalizeWeights(gens) # gens
    /\ out.HGen[Len(years)] > 0
    /\ out.HGen[Len(years)] # out.HInd[Len(years)]

\* ------------------------------------------------------------------ C9
\* C9: multiplying every weight of a cohort set by the same positive factor
\* (here 2 or 3, the product still on the slider's range 0..1) leaves the
\* set's HHI series as it is at every horizon year.
HHIScaleInvariant ==
    Mounted =>
        \A c \in {2, 3} :
            LET Scaled(cohorts) ==
                    [i \in 1..Len(cohorts) |->
                        [cohorts[i] EXCEPT !.w = Weight(c * cohorts[i].w.num)]]
                InRange(cohorts) ==
                    \A i \in 1..Len(cohorts) : c * cohorts[i].w.num <= cohorts[i].w.den
            IN  /\ InRange(gens) =>
                      HGen(genData(Scaled(gens)), Scaled(gens),
                           normalizeWeights(Scaled(gens))) = out.HGen
                /\ InRange(inds) =>
                      HInd(indData(Scaled(inds)), Scaled(inds),
                           normalizeWeights(Scaled(inds))) = out.HInd

\* ----------------------------------------------------------------- C10
\* C10: the cascade has one row per industry sector, in the order of the
\* industry set, and the delta of a row is exposure[sector]["Finance"]
\* times the shock (tenths times hundredths: exact in thousandths); with
\* shock 0 every delta is 0.
CascadeIsFinanceExposureTimesShock ==
    Mounted =>
        /\ Len(out.cascade) = Len(inds)
        /\ \A i \in 1..Len(inds) :
              /\ out.cascade[i].sector = inds[i].name
              /\ out.cascade[i].delta =
                    (CASE inds[i].name = "Finance" -> 4
                       [] inds[i].name = "Manufacturing" -> 3
                       [] inds[i].name = "Healthcare" -> 2) * shock
              /\ shock = 0 => out.cascade[i].delta = 0

CascadeWitness ==
    /\ Mounted
    /\ nChanges >= 1
    /\ shock = -10
    /\ Len(out.cascade) = 3
    /\ out.cascade[1] = [sector |-> "Finance", delta |-> -40]
    /\ out.cascade[3] = [sector |-> "Healthcare", delta |-> -20]

VelocityIsFirstDifference ==
    Mounted =>
        LET Holds(cohorts, data, vel) ==
                /\ Len(data) = Len(years)
                /\ Len(vel) = Len(years) - 1
                /\ \A i \in 1..Len(vel) :
                      /\ DOMAIN vel[i] = {"year"} \cup KeySet(cohorts)
                      /\ vel[i]["year"] = years[i + 1]
                      /\ vel[i]["year"] # years[1]
                      /\ \A n \in KeySet(cohorts) :
                            vel[i][n] = data[i + 1][n] - data[i][n]
        IN  /\ Holds(gens, out.genData, out.genVelData)
            /\ Holds(inds, out.indData, out.indVelData)

VelocityWitness ==
    /\ Mounted
    /\ nChanges >= 1
    /\ gens # initialGens
    /\ \E i \in 1..Len(out.genVelData) :
          \E n \in KeySet(gens) :
              /\ out.genVelData[i][n] > 0
              /\ out.genVelData[i][n] = out.genData[i + 1][n] - out.genData[i][n]

\* ----------------------------------------------------------------- C13
\* C13: every value of every adoption series lies strictly between 0 and 1
\* (in thousandths: above 0 and below 1000).
AdoptionStrictlyInside ==
    Mounted =>
        LET Holds(cohorts, data) ==
                \A i \in 1..Len(data) :
                    \A n \in KeySet(cohorts) : data[i][n] > 0 /\ data[i][n] < 1000
        IN  Holds(gens, out.genData) /\ Holds(inds, out.indData)

\* ----------------------------------------------------------------- C14
\* C14: in a host that provides window.C42_SDK every AI analysis request in
\* flight was sent through the SDK, whenever the button was clicked.
SdkUsedWhenProvided ==
    windowSdk => \A i \in 1..Len(inflight) : inflight[i].backend = "sdk"

\* ----------------------------------------------------------------- C15
\* C15: when a request fails the error state is set, and its message is the
\* host/kernel one if that request went through the SDK and the standalone
\* API-key one if it went out directly.
FailureNamesBackendUsed ==
    [][\A i \in 1..Len(inflight) :
          RequestRejects(i) =>
              /\ error' # null
              /\ error'.val =
                    IF inflight[i].backend = "sdk"
                    THEN "Kernel failed to generate response. Please check the C42 OS host."
                    ELSE "Failed to get analysis. In standalone mode, please ensure your API key is configured correctly."]_vars

FailureThroughSdkWitness ==
    /\ windowSdk
    /\ nRequests >= 2
    /\ ~isLoading
    /\ error = Str("Kernel failed to generate response. Please check the C42 OS host.")

\* ----------------------------------------------------------------- C17
\* C17: isLoading is true exactly while a request is in flight, and, the
\* backend answering or refusing every request, a loading state always
\* ends.
LoadingWhileOutstanding ==
    /\ [](isLoading <=> Len(inflight) > 0)
    /\ isLoading ~> ~isLoading

LoadingEndedWitness ==
    /\ nRequests >= 1
    /\ ~isLoading
    /\ inflight = <<>>
    /\ aiAnalysis # ""

\* ----------------------------------------------------------------- C18
\* C18: at most one AI analysis request is in flight at any time.
AtMostOneInFlight == Len(inflight) <= 1

SecondRequestWitness ==
    /\ nRequests >= 2
    /\ Len(inflight) = 1
    /\ isLoading

\* ----------------------------------------------------------------- C19
\* C19: the error message and a non-empty analysis text are never both
\* set.
ErrorAndAnalysisExclusive == ~(error # null /\ aiAnalysis # "")

ErrorAfterAnalysisWitness ==
    /\ nRequests >= 2
    /\ ~isLoading
    /\ error # null
    /\ aiAnalysis = ""

\* ----------------------------------------------------------------- C16
\* C16: a step that changes a cohort set changes one field (t0, k or w) of
\* one cohort of that set and nothing else: the other cohorts, the name,
\* the color and the other fields of that cohort, the number and order of
\* the cohorts, the other set and the shock stay; and in every state each
\* industry sector has its row in the exposure matrix.
ParamChangeFrame ==
    /\ [][LET OneField(prev, next) ==
                  /\ Len(next) = Len(prev)
                  /\ \E i \in 1..Len(prev), f \in Fields :
                        /\ \A j \in 1..Len(prev) : j # i => next[j] = prev[j]
                        /\ next[i].name = prev[i].name
                        /\ next[i].color = prev[i].color
                        /\ \A g \in Fields \ {f} : next[i][g] = prev[i][g]
          IN  /\ gens' # gens =>
                    OneField(gens, gens') /\ inds' = inds /\ shock' = shock
              /\ inds' # inds =>
                    OneField(inds, inds') /\ gens' = gens /\ shock' = shock]_vars
    /\ [](KeySet(inds) \subseteq DOMAIN E)

ParamChangeWitness ==
    /\ nChanges >= 1
    /\ inds = initialInds
    /\ shock = -10
    /\ \E i \in 1..Len(gens) :
          /\ gens[i] # initialGens[i]
          /\ gens[i].color = initialGens[i].color
          /\ \A j \in 1..Len(gens) : j # i => gens[j] = initialGens[j]

\* ----------------------------------------------------------------- C20
\* C20: the time-to-threshold of a cohort is the first horizon year whose
\* output (3-decimal) adoption value is >= 0.9, and null exactly when no
\* output value is; on the sliders' grid (k in tenths, whole years) the
\* rounding never carries a value below 0.9 up to 0.900.
ThresholdAgreesWithSeries ==
    Mounted =>
        LET Holds(cohorts, data, tt) ==
                \A n \in KeySet(cohorts) :
                    LET Q == {i \in 1..Len(data) : data[i][n] >= 900}
                    IN  IF Q = {} THEN tt[n] = null
                        ELSE /\ tt[n] # null
                             /\ \E i \in Q : /\ tt[n].val = data[i]["year"]
                                             /\ \A j \in Q : i <= j
        IN  /\ Holds(gens, out.genData, out.timeToThresholdGen)
            /\ Holds(inds, out.indData, out.timeToThresholdInd)
            /\ \A x \in 1..Len(LogisticTable) :
                  (LogisticTable[x] >= defaultThreshold)
                      <=> (toFixed(LogisticTable[x], LScale, 3) >= 900)

ThresholdAgreesWitness ==
    /\ Mounted
    /\ nChanges >= 1
    /\ \E n \in KeySet(gens) :
          /\ out.timeToThresholdGen[n] = null
          /\ \A i \in 1..Len(out.genData) : out.genData[i][n] < 900
    /\ \E n \in KeySet(gens) :
          \E i \in 2..Len(out.genData) :
              /\ out.timeToThresholdGen[n] = Num(years[i])
              /\ out.genData[i][n] >= 900
              /\ out.genData[i - 1][n] < 900

====
